---- MODULE Spec2Model ----
(***************************************************************************)
(* Model of hpilo.py, the Salt execution module for HP iLO.                *)
(*                                                                         *)
(* Python dicts are sets of <<key, value>> pairs with at most one pair per *)
(* key; Python lists are sequences; True, False and None are the strings   *)
(* PyTrue, PyFalse and PyNone.  Every remote method of the hpilo client    *)
(* either returns or raises hpilo.IloError; which of the two is the choice *)
(* of the BMC, drawn with \E in the actions.  Each caller runs one         *)
(* dispatcher at a time; callers interleave at the remote calls that read  *)
(* or change the host's power.                                             *)
(***************************************************************************)
EXTENDS Integers, Sequences, FiniteSets, TLC

VARIABLES hostPower, pc, call

vars == <<hostPower, pc, call>>

Callers == {"minion1", "minion2"}

(* Number of field names the firmware and asset-tag replies draw from. *)
MaxFields == 2

PyTrue == "True"
PyFalse == "False"
PyNone == "None"

(* ---------------------------------------------------------------------- *)
(* Python dict helpers                                                     *)
(* ---------------------------------------------------------------------- *)
Keys(d) == {p[1] : p \in d}

DictGet(d, k) == IF k \in Keys(d) THEN (CHOOSE p \in d : p[1] = k)[2] ELSE PyNone

(* {**a, **b}: the pairs of b replace the pairs of a with the same key. *)
DictMerge(a, b) == {p \in a : p[1] \notin Keys(b)} \cup b

EmptyDict == {}

(* ---------------------------------------------------------------------- *)
(* Inputs: keyword arguments and the minion configuration                  *)
(* ---------------------------------------------------------------------- *)
ArgValue(k) ==
  CASE k = "login" -> "root"
    [] k = "password" -> "secret"
    [] k = "hostname" -> "arg-ilo.oob.local"
    [] k = "profile" -> "server1-ilo"
    [] k = "detailed" -> PyTrue

CredKeys == {"login", "password", "hostname"}

KwargsOf(S) == {<<k, ArgValue(k)>> : k \in S}

\* The shapes of keyword arguments tried: explicit credentials (alone and with a
\* profile), a profile alone, nothing.
CredKeySets == { CredKeys, CredKeys \cup {"profile"}, {"profile"}, {} }

CredKwargs == {KwargsOf(S) : S \in CredKeySets}

(* __salt__['config.option'](name) on a configured minion. *)
config_option(name) ==
  CASE name = "hpilo.login" -> "Administrator"
    [] name = "hpilo.password" -> "password"
    [] name = "hpilo.hostname" -> "default-ilo.oob.local"
    [] name = "server1-ilo" -> { <<"login", "Administrator1">>,
                                 <<"password", "password_1">>,
                                 <<"hostname", "server1-ilo.oob.local">> }

IloErrors == {"Login failed"}

(* ---------------------------------------------------------------------- *)
(* One dispatcher call: its inputs and everything it did                   *)
(* ---------------------------------------------------------------------- *)
NoRet == [kind |-> "none", dict |-> EmptyDict, list |-> <<>>]
RetNone == [kind |-> "None", dict |-> EmptyDict, list |-> <<>>]
RetDict(d) == [kind |-> "dict", dict |-> d, list |-> <<>>]
RetList(l) == [kind |-> "list", dict |-> EmptyDict, list |-> l]

NoCall ==
  [fn |-> "none", kwargs |-> EmptyDict, hold |-> FALSE, handles |-> <<>>,
   remote |-> <<>>, log |-> <<>>, status |-> "none", ret |-> NoRet, exc |-> "none"]

NewCall(fn, kwargs, hold) ==
  [NoCall EXCEPT !.fn = fn, !.kwargs = kwargs, !.hold = hold, !.status = "running"]

\* hpilo.Ilo(creds, delayed=delay): the handle is bound to one credential set.
Ilo(creds, delay, n) ==
  [id |-> n, hostname |-> DictGet(creds, "hostname"), login |-> DictGet(creds, "login"),
   password |-> DictGet(creds, "password"), delayed |-> delay]

LoginRaises(kwargs) == CredKeys \subseteq Keys(kwargs)

LoginCreds(kwargs) ==
  IF "profile" \in Keys(kwargs)
  THEN LET profile == config_option(DictGet(kwargs, "profile"))
       IN  { <<"login", DictGet(profile, "login")>>,
             <<"password", DictGet(profile, "password")>>,
             <<"hostname", DictGet(profile, "hostname")>> }
  ELSE { <<"login", config_option("hpilo.login")>>,
         <<"password", config_option("hpilo.password")>>,
         <<"hostname", config_option("hpilo.hostname")>> }

\* _login run inside call f: the call with the new handle appended, or the
\* call ended by the NameError that the undefined name config raises.
_login(f) ==
  IF LoginRaises(f.kwargs)
  THEN [f EXCEPT !.status = "raised", !.exc = "NameError"]
  ELSE [f EXCEPT !.handles = Append(@, Ilo(LoginCreds(f.kwargs), FALSE, Len(@) + 1))]

\* ----------------------------------------------------------------------
\* Steps shared by the dispatchers
\* ----------------------------------------------------------------------
\* Mutant: the handle of the outermost function.
LastHandle_outermost(f) == f.handles[1]

\* The handle the innermost running function got from its _login.
LastHandle(f) == f.handles[Len(f.handles)]

\* One method call on handle ilo and its answer; ok is FALSE when it raised
\* hpilo.IloError.
Remote(f, method, ilo, reply) ==
  [f EXCEPT !.remote = Append(@, [method |-> method, via |-> ilo.id,
                                  ok |-> reply.ok, got |-> reply.val])]

\* log.error(f'{what}{ilo.hostname}: {e}')
LogError(f, what, ilo, e) ==
  [f EXCEPT !.log = Append(@, <<what, ilo.hostname, ": ", e>>)]

Return(f, ret) == [f EXCEPT !.status = "returned", !.ret = ret]

Raise(f, exc) == [f EXCEPT !.status = "raised", !.exc = exc]

\* What a remote method answers: a value, or the text of an IloError.
Ok(v) == [ok |-> TRUE, val |-> v, err |-> "none"]
Err(e) == [ok |-> FALSE, val |-> "none", err |-> e]
Failures == {Err(e) : e \in IloErrors}
\* The answer to a query that is never sent.
NotAsked == [ok |-> FALSE, val |-> "none", err |-> "not asked"]

\* ----------------------------------------------------------------------
\* The BMC
\* ----------------------------------------------------------------------
\* get_host_power_status answers the host's power, or fails.
PowerStatusReplies == {Ok(hostPower)} \cup Failures

\* Power after a button command: it takes a running host down; a momentary
\* press powers an off host on, and so may the start of a hold.
Pressed(method, p) ==
  IF p = "ON" THEN {"OFF"}
  ELSE IF method = "press_pwr_btn" THEN {"ON"} ELSE {"ON", "OFF"}

\* The replies to get_fw_version and get_asset_tag carry the first n of these
\* field names, n <= MaxFields: they can collide with each other and with
\* product_name.
FwFieldNames == <<"firmware_version", "product_name", "asset_tag", "firmware_date">>
TagFieldNames == <<"asset_tag", "product_name", "firmware_version", "license_type">>
FwReplies ==
  {Ok({<<FwFieldNames[i], "fw-value">> : i \in 1..n}) : n \in 0..MaxFields} \cup Failures
TagReplies ==
  {Ok({<<TagFieldNames[i], "tag-value">> : i \in 1..n}) : n \in 0..MaxFields} \cup Failures
NameReplies == {Ok("ProLiant DL380 Gen9")} \cup Failures
UserReplies == {Ok(<<"Administrator", "operator">>)} \cup Failures
UserInfoReplies ==
  {Ok({<<"Administrator", "admin-record">>, <<"operator", "operator-record">>})} \cup Failures
NetworkReplies ==
  {Ok({<<"dns_name", "server1-ilo">>, <<"ip_address", "10.0.0.5">>})} \cup Failures
BootReplies == {Ok(<<"cdrom", "hdd", "network">>)} \cup Failures

\* ----------------------------------------------------------------------
\* The dispatchers, as functions of the call so far and the BMC's answers
\* ----------------------------------------------------------------------
PowerOf(pwr) == IF pwr = "ON" THEN PyTrue ELSE PyFalse

get_power_status_body(f, reply) ==
  LET g == _login(f) IN
  IF g.status = "raised" THEN g
  ELSE LET ilo == LastHandle(g)
           r == Remote(g, "get_host_power_status", ilo, reply)
       IN  IF reply.ok
           THEN Return(r, RetDict({<<"power", PowerOf(reply.val)>>}))
           ELSE Return(LogError(r, "Failed to get power state of ", ilo, reply.err),
                       RetDict(EmptyDict))

\* "except IloError" names nothing: evaluating it raises NameError in place
\* of handling the IloError; on success the function falls off its end.
power_on_body(f, reply) ==
  LET g == _login(f) IN
  IF g.status = "raised" THEN g
  ELSE LET ilo == LastHandle(g)
           r == Remote(g, "set_host_power", ilo, reply)
       IN  IF reply.ok THEN Return(r, RetNone) ELSE Raise(r, "NameError")

Truthy(v) == v \notin {PyNone, PyFalse}

\* Mutant: the comparison turned round.
AlreadyOff_inverted(status) == DictGet(status, "power") = PyTrue

\* Mutant: "not status.get('power')", which a missing key satisfies too.
AlreadyOff_falsy(status) == ~Truthy(DictGet(status, "power"))

\* get_power_status(kwargs).get('power') == False
AlreadyOff(status) == DictGet(status, "power") = PyFalse

\* Mutant: the two branches of "if hold" exchanged.
ButtonMethod_swapped(hold) == IF hold THEN "press_pwr_btn" ELSE "hold_pwr_btn"

ButtonMethod(hold) == IF hold THEN "hold_pwr_btn" ELSE "press_pwr_btn"

PowerOffRet == RetDict({<<"power_state", PyFalse>>})

\* power_off up to the button: its own _login, then get_power_status with the
\* same kwargs (a second _login and the status query), then the comparison.
power_off_precheck(f, reply) ==
  LET g == _login(f) IN
  IF g.status = "raised" THEN g
  ELSE LET s == get_power_status_body(g, reply) IN
       IF s.status = "raised" THEN s
       ELSE IF AlreadyOff(s.ret.dict) THEN Return(s, PowerOffRet)
       ELSE [s EXCEPT !.status = "running", !.ret = NoRet]

\* The try block of power_off: ilo is the handle of power_off's own _login.
power_off_button_body(f, reply) ==
  LET ilo == f.handles[1]
      r == Remote(f, ButtonMethod(f.hold), ilo, reply)
  IN  IF reply.ok THEN Return(r, PowerOffRet)
      ELSE Return(LogError(r, "Failed to power off ", ilo, reply.err),
                  RetDict({<<"power_state", PyNone>>}))

list_users_body(f, reply) ==
  LET g == _login(f) IN
  IF g.status = "raised" THEN g
  ELSE LET ilo == LastHandle(g)
           detailed == Truthy(DictGet(g.kwargs, "detailed"))
           r == Remote(g, IF detailed THEN "get_all_user_info" ELSE "get_all_users",
                       ilo, reply)
       IN  IF ~reply.ok
           THEN Return(LogError(r, "Failed to get all users from ", ilo, reply.err),
                       RetDict(EmptyDict))
           ELSE IF detailed THEN Return(r, RetDict(reply.val))
           ELSE Return(r, RetList(reply.val))

\* Mutant: the asset tag left out of the merge.
ProductInfoResult_no_asset_tag(product_name, fw_version, asset_tag) ==
  DictMerge({<<"product_name", product_name>>}, fw_version)

\* {'product_name': product_name, **asset_tag, **fw_version}
ProductInfoResult(product_name, fw_version, asset_tag) ==
  DictMerge(DictMerge({<<"product_name", product_name>>}, asset_tag), fw_version)

\* Mutant: every query caught on its own, so that all three are always sent.
ProductQueries_all(f, ilo, name, fw, tag) ==
  Remote(Remote(Remote(f, "get_product_name", ilo, name), "get_fw_version", ilo, fw),
         "get_asset_tag", ilo, tag)

\* The three queries of the try block, in order; the first failure ends it.
ProductQueries(f, ilo, name, fw, tag) ==
  LET r1 == Remote(f, "get_product_name", ilo, name)
      r2 == Remote(r1, "get_fw_version", ilo, fw)
      r3 == Remote(r2, "get_asset_tag", ilo, tag)
  IN  IF ~name.ok THEN r1 ELSE IF ~fw.ok THEN r2 ELSE r3

product_info_body(f, name, fw, tag) ==
  LET g == _login(f) IN
  IF g.status = "raised" THEN g
  ELSE LET ilo == LastHandle(g)
           r == ProductQueries(g, ilo, name, fw, tag)
           failed == IF ~name.ok THEN name ELSE IF ~fw.ok THEN fw ELSE tag
       IN  IF ~failed.ok
           THEN Return(LogError(r, "Failed to get product name and version version from ",
                                ilo, failed.err),
                       RetDict(EmptyDict))
           ELSE Return(r, RetDict(ProductInfoResult(name.val, fw.val, tag.val)))

network_settings_body(f, reply) ==
  LET g == _login(f) IN
  IF g.status = "raised" THEN g
  ELSE LET ilo == LastHandle(g)
           r == Remote(g, "get_network_settings", ilo, reply)
       IN  IF reply.ok THEN Return(r, RetDict(reply.val))
           ELSE Return(LogError(r, "Failed to get network settings from ", ilo, reply.err),
                       RetDict(EmptyDict))

get_boot_order_body(f, reply) ==
  LET g == _login(f) IN
  IF g.status = "raised" THEN g
  ELSE LET ilo == LastHandle(g)
           r == Remote(g, "get_persistent_boot", ilo, reply)
       IN  IF reply.ok THEN Return(r, RetList(reply.val))
           ELSE Return(LogError(r, "Failed to get boot order from ", ilo, reply.err),
                       RetDict(EmptyDict))

\* ----------------------------------------------------------------------
\* Actions: a caller's dispatcher call, atomic at each remote call that
\* reads or changes the host's power
\* ----------------------------------------------------------------------
Init ==
  /\ hostPower \in {"ON", "OFF"}
  /\ pc = [c \in Callers |-> "idle"]
  /\ call = [c \in Callers |-> NoCall]

get_power_status(c) ==
  /\ pc[c] = "idle"
  /\ \E kwargs \in CredKwargs, reply \in PowerStatusReplies :
       call' = [call EXCEPT ![c] =
                  get_power_status_body(NewCall("get_power_status", kwargs, FALSE), reply)]
  /\ UNCHANGED <<hostPower, pc>>

power_on(c) ==
  /\ pc[c] = "idle"
  /\ \E kwargs \in CredKwargs, reply \in {Ok("none")} \cup Failures :
       LET f == power_on_body(NewCall("power_on", kwargs, FALSE), reply) IN
       /\ call' = [call EXCEPT ![c] = f]
       /\ hostPower' = IF f.remote # <<>> /\ reply.ok THEN "ON" ELSE hostPower
  /\ UNCHANGED pc

power_off(c) ==
  /\ pc[c] = "idle"
  /\ \E kwargs \in CredKwargs, hold \in BOOLEAN, reply \in PowerStatusReplies :
       LET f == power_off_precheck(NewCall("power_off", kwargs, hold), reply) IN
       /\ call' = [call EXCEPT ![c] = f]
       /\ pc' = [pc EXCEPT ![c] = IF f.status = "running" THEN "power_off_button" ELSE "idle"]
  /\ UNCHANGED hostPower

power_off_button(c) ==
  /\ pc[c] = "power_off_button"
  /\ \E reply \in {Ok("none")} \cup Failures :
       /\ call' = [call EXCEPT ![c] = power_off_button_body(call[c], reply)]
       /\ hostPower' \in IF reply.ok THEN Pressed(ButtonMethod(call[c].hold), hostPower)
                         ELSE {hostPower}
  /\ pc' = [pc EXCEPT ![c] = "idle"]

list_users(c) ==
  /\ pc[c] = "idle"
  /\ \E kwargs \in CredKwargs, detailed \in BOOLEAN :
       \E reply \in IF detailed THEN UserInfoReplies ELSE UserReplies :
         call' = [call EXCEPT ![c] =
                    list_users_body(
                      NewCall("list_users",
                              IF detailed THEN kwargs \cup KwargsOf({"detailed"}) ELSE kwargs,
                              FALSE),
                      reply)]
  /\ UNCHANGED <<hostPower, pc>>

product_info(c) ==
  /\ pc[c] = "idle"
  /\ \E kwargs \in CredKwargs, name \in NameReplies :
     \E fw \in IF name.ok THEN FwReplies ELSE {NotAsked} :
     \E tag \in IF name.ok /\ fw.ok THEN TagReplies ELSE {NotAsked} :
       call' = [call EXCEPT ![c] =
                  product_info_body(NewCall("product_info", kwargs, FALSE), name, fw, tag)]
  /\ UNCHANGED <<hostPower, pc>>

network_settings(c) ==
  /\ pc[c] = "idle"
  /\ \E kwargs \in CredKwargs, reply \in NetworkReplies :
       call' = [call EXCEPT ![c] =
                  network_settings_body(NewCall("network_settings", kwargs, FALSE), reply)]
  /\ UNCHANGED <<hostPower, pc>>

get_boot_order(c) ==
  /\ pc[c] = "idle"
  /\ \E kwargs \in CredKwargs, reply \in BootReplies :
       call' = [call EXCEPT ![c] =
                  get_boot_order_body(NewCall("get_boot_order", kwargs, FALSE), reply)]
  /\ UNCHANGED <<hostPower, pc>>

Next ==
  \E c \in Callers :
    \/ get_power_status(c)
    \/ power_on(c)
    \/ power_off(c)
    \/ power_off_button(c)
    \/ list_users(c)
    \/ product_info(c)
    \/ network_settings(c)
    \/ get_boot_order(c)

Spec == Init /\ [][Next]_vars

\* ----------------------------------------------------------------------
\* Properties
\* ----------------------------------------------------------------------
Started(f) == f.fn # "none"
Finished(f) == f.status \in {"returned", "raised"}
Methods(f) == {f.remote[i].method : i \in DOMAIN f.remote}
ButtonCalls(f) == {i \in DOMAIN f.remote : f.remote[i].method \in {"press_pwr_btn", "hold_pwr_btn"}}
PowerCommands == {"press_pwr_btn", "hold_pwr_btn", "set_host_power"}

\* The status query of this call answered, and with something other than "ON".
StatusReportedOff(f) ==
  \E i \in DOMAIN f.remote :
    /\ f.remote[i].method = "get_host_power_status"
    /\ f.remote[i].ok
    /\ f.remote[i].got # "ON"

\* The status query of this call raised IloError.
StatusQueryFailed(f) ==
  \E i \in DOMAIN f.remote :
    f.remote[i].method = "get_host_power_status" /\ ~f.remote[i].ok

\* C1: a power_off call whose status query reports the host off (anything but
\* "ON") issues no power-change command and returns {power_state: False},
\* whatever hold is.
C1_OffIssuesNoPowerCommand ==
  \A c \in Callers :
    LET f == call[c] IN
    (f.fn = "power_off" /\ StatusReportedOff(f)) =>
      /\ f.status = "returned"
      /\ f.ret = RetDict({<<"power_state", PyFalse>>})
      /\ Methods(f) \cap PowerCommands = {}

C1_Witness ==
  \E c, d \in Callers :
    /\ call[c].fn = "power_off" /\ StatusReportedOff(call[c]) /\ call[c].hold
    /\ call[d].fn = "power_off" /\ StatusReportedOff(call[d]) /\ ~call[d].hold

\* C2: when the last remote call of a dispatcher raised the protocol error, the
\* dispatcher has logged an error containing the hostname of the handle, has
\* not raised, and returns an empty mapping ({power_state: None} for power_off).
C2_ErrorLoggedAndSwallowed ==
  \A c \in Callers :
    LET f == call[c] IN
    (Finished(f) /\ f.remote # <<>> /\ ~f.remote[Len(f.remote)].ok) =>
      LET last == f.remote[Len(f.remote)] IN
      /\ f.status = "returned"
      /\ \E j \in DOMAIN f.log :
           \E k \in DOMAIN f.log[j] : f.log[j][k] = f.handles[last.via].hostname
      /\ f.ret = IF f.fn = "power_off" THEN RetDict({<<"power_state", PyNone>>})
                 ELSE RetDict(EmptyDict)

\* The credential set the resolution order selects for these keyword arguments.
SelectedCreds(kwargs) ==
  IF CredKeys \subseteq Keys(kwargs) THEN {p \in kwargs : p[1] \in CredKeys}
  ELSE IF "profile" \in Keys(kwargs) THEN config_option(DictGet(kwargs, "profile"))
  ELSE { <<"login", config_option("hpilo.login")>>,
         <<"password", config_option("hpilo.password")>>,
         <<"hostname", config_option("hpilo.hostname")>> }

\* C3: whichever of the three paths _login takes, the client is constructed
\* with the login, password and hostname of the source the resolution order
\* selects: the supplied arguments, else the profile, else the defaults.
C3_CredentialsFromSelectedSource ==
  \A c \in Callers :
    LET f == call[c] IN
    Started(f) =>
      /\ f.handles # <<>>
      /\ \A i \in DOMAIN f.handles :
           LET h == f.handles[i] IN
           { <<"login", h.login>>, <<"password", h.password>>, <<"hostname", h.hostname>> }
             = SelectedCreds(f.kwargs)

\* C4 as claimed, on the calls whose credential resolution completes: the whole
\* call, nested dispatcher included, constructs exactly one handle and every
\* remote call goes through it.
C4_ExactlyOneHandle ==
  \A c \in Callers :
    LET f == call[c] IN
    (Started(f) /\ f.handles # <<>>) =>
      /\ Len(f.handles) = 1
      /\ \A i \in DOMAIN f.remote : f.remote[i].via = f.handles[1].id

\* C4 amended: each _login constructs one handle, so a call constructs none
\* when its credential resolution raises, two in power_off (its own and the one
\* of the nested get_power_status, both with the same credentials) and one in
\* every other dispatcher; the status query of power_off goes through the
\* nested handle, its button command through its own, and every remote call of
\* the other dispatchers through their one handle.
C4_HandlePerLogin ==
  \A c \in Callers :
    LET f == call[c] IN
    Started(f) =>
      /\ Len(f.handles) =
           IF f.status = "raised" /\ f.remote = <<>> THEN 0
           ELSE IF f.fn = "power_off" THEN 2 ELSE 1
      /\ \A i, j \in DOMAIN f.handles :
           /\ f.handles[i].id = i
           /\ [f.handles[i] EXCEPT !.id = 0] = [f.handles[j] EXCEPT !.id = 0]
      /\ \A i \in DOMAIN f.remote :
           f.remote[i].via =
             IF f.fn = "power_off" /\ f.remote[i].method = "get_host_power_status"
             THEN 2 ELSE 1

C4_Witness ==
  \E c \in Callers :
    LET f == call[c] IN
    /\ f.fn = "power_off" /\ f.status = "returned"
    /\ Len(f.handles) = 2 /\ Len(f.remote) = 2
    /\ f.remote[1].via = 2 /\ f.remote[2].via = 1

\* C5: a power_on call whose set_host_power(True) succeeds returns
\* {power_state: True}.
C5_PowerOnReturnsTrue ==
  \A c \in Callers :
    LET f == call[c] IN
    (f.fn = "power_on" /\ f.remote # <<>> /\ f.remote[1].ok) =>
      /\ f.status = "returned"
      /\ f.ret = RetDict({<<"power_state", PyTrue>>})

\* C6: no button command of power_off is delivered to a host that is off: in
\* every step in which a power_off call has its press or hold accepted by the
\* BMC, the host is on before the step.
C6_ButtonOnlyWhenOn ==
  [][\A c \in Callers :
       (/\ pc[c] = "power_off_button"
        /\ pc'[c] = "idle"
        /\ call'[c].remote[Len(call'[c].remote)].ok) => hostPower = "ON"]_vars

\* C7 as claimed: a dispatcher call that resolved its credentials and ended
\* has issued exactly one remote call.
C7_ExactlyOneRemoteCall ==
  \A c \in Callers :
    LET f == call[c] IN
    (Finished(f) /\ f.handles # <<>>) => Len(f.remote) = 1

\* C7 amended: a call whose credential resolution raises issues no remote call;
\* otherwise get_power_status, power_on, list_users, network_settings and
\* get_boot_order issue exactly one; power_off issues the status query and,
\* unless that query reports the host off, one button command after it;
\* product_info issues its three queries in order up to and including the
\* first that fails.
C7_RemoteCallsPerDispatcher ==
  \A c \in Callers :
    LET f == call[c]
        n == Len(f.remote)
    IN
    Finished(f) =>
      IF f.handles = <<>> THEN n = 0
      ELSE IF f.fn = "power_off"
        THEN /\ f.remote[1].method = "get_host_power_status"
             /\ n = IF StatusReportedOff(f) THEN 1 ELSE 2
             /\ n = 2 => f.remote[2].method \in {"press_pwr_btn", "hold_pwr_btn"}
      ELSE IF f.fn = "product_info"
        THEN /\ n \in 1..3
             /\ \A i \in 1..n :
                  /\ f.remote[i].method =
                       <<"get_product_name", "get_fw_version", "get_asset_tag">>[i]
                  /\ i < n => f.remote[i].ok
             /\ n < 3 => ~f.remote[n].ok
      ELSE n = 1

C7_Witness ==
  \E c \in Callers :
    LET f == call[c] IN
    /\ f.fn = "product_info" /\ f.status = "returned"
    /\ Len(f.remote) = 2 /\ ~f.remote[2].ok

\* C8: a power_off call that gets to its power command issues exactly one
\* button command, hold_pwr_btn when hold is true and press_pwr_btn when it is
\* false; it never issues both, nor the one of the other mode.
C8_HoldSelectsButton ==
  \A c \in Callers :
    LET f == call[c] IN
    f.fn = "power_off" =>
      /\ Cardinality(ButtonCalls(f)) <= 1
      /\ \A i \in ButtonCalls(f) :
           f.remote[i].method = IF f.hold THEN "hold_pwr_btn" ELSE "press_pwr_btn"
      /\ (Finished(f) /\ f.handles # <<>> /\ ~StatusReportedOff(f)) =>
           Cardinality(ButtonCalls(f)) = 1

C8_Witness ==
  \E c, d \in Callers :
    /\ call[c].fn = "power_off" /\ call[c].hold /\ ButtonCalls(call[c]) # {}
    /\ call[d].fn = "power_off" /\ ~call[d].hold /\ ButtonCalls(call[d]) # {}

\* C9: when the three queries of product_info succeed, the keys of the result
\* are product_name together with the keys of the firmware reply and the keys
\* of the asset-tag reply, collisions included.
C9_ProductInfoKeysAreUnion ==
  \A c \in Callers :
    LET f == call[c] IN
    (f.fn = "product_info" /\ Len(f.remote) = 3 /\ f.remote[3].ok) =>
      /\ f.status = "returned"
      /\ Keys(f.ret.dict) =
           {"product_name"} \cup Keys(f.remote[2].got) \cup Keys(f.remote[3].got)

C9_Witness ==
  \E c \in Callers :
    LET f == call[c] IN
    /\ f.fn = "product_info" /\ Len(f.remote) = 3 /\ f.remote[3].ok
    /\ "product_name" \in Keys(f.remote[2].got) \cap Keys(f.remote[3].got)
    /\ "asset_tag" \in Keys(f.remote[3].got) \ Keys(f.remote[2].got)

\* C10: power_off returns without a button command only when its status query
\* answered that the host is not on; when the status query itself fails,
\* power_off goes on to the press or hold command, and returns
\* {power_state: False} if that command succeeds.
C10_FailedPrecheckFallsThrough ==
  \A c \in Callers :
    LET f == call[c] IN
    f.fn = "power_off" =>
      /\ (f.status = "returned" /\ ButtonCalls(f) = {}) => StatusReportedOff(f)
      /\ StatusQueryFailed(f) =>
           \/ f.status = "running" /\ pc[c] = "power_off_button"
           \/ /\ f.status = "returned"
              /\ ButtonCalls(f) = {2}
              /\ f.remote[2].ok => f.ret = RetDict({<<"power_state", PyFalse>>})

C10_Witness ==
  \E c \in Callers :
    LET f == call[c] IN
    /\ f.fn = "power_off" /\ StatusQueryFailed(f)
    /\ f.status = "returned" /\ ButtonCalls(f) = {2} /\ f.remote[2].ok
    /\ f.ret = RetDict({<<"power_state", PyFalse>>})

====
